---- MODULE Spec2Model ----
(***************************************************************************)
(* CacheService (estruyf/indexeddb-cache): a key/value cache on one        *)
(* IndexedDB object store, with an expiration per entry that is enforced   *)
(* when the entry is read.                                                 *)
(*                                                                         *)
(* Time is in milliseconds, as Date.getTime() gives it.  A promise is the  *)
(* record [state, value]; every JavaScript value a promise settles with is *)
(* written as a string ("true", "false", "undefined", a payload, or the    *)
(* name of the rejection message).  The object store serves its requests   *)
(* in the order in which their transactions were created.                  *)
(***************************************************************************)
EXTENDS Integers, Sequences, FiniteSets, TLC

VARIABLES
    now,                \* the wall clock, new Date().getTime()
    dbVersion,          \* this.dbVersion, the constructor's argument
    db,                 \* this.db: 0 is null, n > 0 the n-th opened connection
    opens,              \* connections opened so far by indexedDB.open
    upgrades,           \* onupgradeneeded callbacks run so far
    diskVersion,        \* the persisted database's version, 0 when there is none
    store,              \* the object store CacheStore: key -> stored JSON text
    openQueue,          \* pending IDBOpenDBRequests, oldest first
    queue,              \* pending object-store requests, oldest first
    nextId,             \* the next promise (call) number
    calls,              \* calls made by the application so far
    last,               \* the promise that settled in the step just taken, and how
    written,            \* per key: the arguments of the last successful put that no
                        \* delete or flush of the application has followed
    removed,            \* per key: what last removed the entry since that put
    expiredRead,        \* per key: a get has found the entry expired since that put
    openFailure,        \* "failed" when an open request has failed, "retried" when
                        \* init has been called after that with no open pending;
                        \* "none" again with the first call on the connection
    helper              \* a call of DateHelper.dateAdd: its arguments and its result

vars == << now, dbVersion, db, opens, upgrades, diskVersion, store,
           openQueue, queue, nextId, calls, last, written, removed, expiredRead,
           openFailure, helper >>

----------------------------------------------------------------------------
(* Bounds of the model *)

MaxCalls == 4
MaxQueue == 2
MaxUnits == 2

(* Program constants *)

HourMs == 3600000
MinuteMs == 60000
SecondMs == 1000
DefaultDbVersion == 1

\* The keys the application uses, the payload it puts, and the payload an
\* earlier session left in the store.
Keys == {"k1", "k2"}
Values == {"v2"}
OldValue == "v1"

\* The clock at construction: half a second past a whole second.
StartNow == SecondMs + 500
\* The instants at which the clock is read: at construction, a quarter of a
\* second before a full hour has passed, and when it has passed.
Instants == << StartNow, StartNow + HourMs - 250, StartNow + HourMs >>
\* The expiration of the entry an earlier session left: the second instant.
OldExpire == Instants[2]
\* The absolute expiration dates a caller passes to put: after every instant.
ExpireDates == {StartNow + HourMs + 1000}

----------------------------------------------------------------------------
(* Dates.  A date string is the record [sec, ms]: the whole seconds and the *)
(* milliseconds its text shows.                                             *)

\* Date() called as a function: the text of the current time, which shows
\* whole seconds only.
DateNow(t) == [sec |-> t \div SecondMs, ms |-> 0]

\* Date.prototype.toJSON / toISOString, as JSON.stringify writes a Date:
\* the text keeps the milliseconds.
toISOString(t) == [sec |-> t \div SecondMs, ms |-> t % SecondMs]

\* new Date(text).getTime()
NewDate(text) == text.sec * SecondMs + text.ms

\* An optional Date: expire?: Date, or the result Date | undefined.
NoDate == [defined |-> FALSE, time |-> 0]
SomeDate(t) == [defined |-> TRUE, time |-> t]

\* The interval units with a fixed length; the calendar units (year, quarter,
\* month, week, day) move the date by local calendar fields and are not
\* part of the model.
Intervals == {"hour", "minute", "second"}

\* Values of the interval argument that are no member of DateInterval.
Unrecognised == {"millisecond", "none"}

\* The switch without its default branch: the date comes back as it was.
dateAddNoDefault(date, interval, units) ==
    LET ret == NewDate(date)
    IN  CASE interval = "hour"   -> SomeDate(ret + units * HourMs)
          [] interval = "minute" -> SomeDate(ret + units * MinuteMs)
          [] interval = "second" -> SomeDate(ret + units * SecondMs)
          [] OTHER               -> SomeDate(ret)

\* DateHelper.dateAdd(date, interval, units)
dateAdd(date, interval, units) ==
    LET ret == NewDate(date)
    IN  CASE interval = "hour"   -> SomeDate(ret + units * HourMs)
          [] interval = "minute" -> SomeDate(ret + units * MinuteMs)
          [] interval = "second" -> SomeDate(ret + units * SecondMs)
          [] OTHER               -> NoDate

\* CacheService.createPersistable(data, expire), called when the clock shows t:
\* the JSON text of {value, expiration}.
createPersistable(data, expire, t) ==
    LET e == IF ~expire.defined
             THEN dateAdd(DateNow(t), "hour", 1)
             ELSE expire
    IN  [value |-> data, expiration |-> toISOString(e.time)]

\* The comparison turned around.
isExpiredInverted(storeObj, t) == NewDate(storeObj.expiration) >= t

\* new Date(storeObj.expiration) <= new Date(), the clock showing t
isExpired(storeObj, t) == NewDate(storeObj.expiration) <= t

----------------------------------------------------------------------------
(* Promises *)

Pending == [state |-> "pending", value |-> "none"]
Fulfilled(v) == [state |-> "fulfilled", value |-> v]
Rejected(e) == [state |-> "rejected", value |-> e]

\* A reject that fulfils the promise with the message.
rejectFulfils(p, e) == IF p.state = "pending" THEN Fulfilled(e) ELSE p

\* A resolve that leaves the promise pending.
resolveIgnored(p, v) == p

\* A promise whose last resolve wins.
resolveLastWins(p, v) == Fulfilled(v)

\* resolve(v) and reject(e) of a promise's executor: only the first call settles.
resolve(p, v) == IF p.state = "pending" THEN Fulfilled(v) ELSE p
reject(p, e) == IF p.state = "pending" THEN Rejected(e) ELSE p

\* A put that rejects on a write error, as delete and flush do.
putFailedRejects(p) == reject(p, "PutError")

\* put: request.onerror = () => { resolve(false); }
putFailed(p) == resolve(p, "false")

\* The guard left out.
noDbNever(handle) == FALSE

\* if (!this.db) { reject(`Database doesn't exist.`); return; }
noDb(handle) == handle = 0

\* An init that returns true whether or not a connection is cached.
connectedAlways(handle) == TRUE

\* The early return left out.
connectedNever(handle) == FALSE

\* if (this.db) { return true; }
connected(handle) == handle # 0

\* The handler without resolve(undefined) in the expired branch: the delete is
\* issued and the stale value is handed back.
getResultStale(found, item, throwError, t) ==
    IF found
    THEN [promise |-> resolve(Pending, item.value),
          deletes |-> isExpired(item, t),
          settles |-> 1]
    ELSE [promise |-> IF throwError
                      THEN reject(Pending, "NotFound")
                      ELSE resolve(Pending, "undefined"),
          deletes |-> FALSE,
          settles |-> 1]

\* The handler without this.delete(cacheKey): the stale entry is left alone.
getResultKeeps(found, item, throwError, t) ==
    IF found
    THEN LET expired == isExpired(item, t)
             p1 == IF expired THEN resolve(Pending, "undefined") ELSE Pending
         IN  [promise |-> resolve(p1, item.value),
              deletes |-> FALSE,
              settles |-> IF expired THEN 2 ELSE 1]
    ELSE [promise |-> IF throwError
                      THEN reject(Pending, "NotFound")
                      ELSE resolve(Pending, "undefined"),
          deletes |-> FALSE,
          settles |-> 1]

\* The handler of the version without throwError: a miss always rejects.
getResultThrows(found, item, throwError, t) ==
    IF found
    THEN LET expired == isExpired(item, t)
             p1 == IF expired THEN resolve(Pending, "undefined") ELSE Pending
         IN  [promise |-> resolve(p1, item.value),
              deletes |-> expired,
              settles |-> IF expired THEN 2 ELSE 1]
    ELSE [promise |-> reject(Pending, "NotFound"),
          deletes |-> FALSE,
          settles |-> 1]

\* request.onsuccess of get: the promise it leaves, whether it called
\* this.delete(cacheKey), and how many times it called resolve or reject.
getResult(found, item, throwError, t) ==
    IF found
    THEN LET expired == isExpired(item, t)
             p1 == IF expired THEN resolve(Pending, "undefined") ELSE Pending
         IN  [promise |-> resolve(p1, item.value),
              deletes |-> expired,
              settles |-> IF expired THEN 2 ELSE 1]
    ELSE [promise |-> IF throwError
                      THEN reject(Pending, "NotFound")
                      ELSE resolve(Pending, "undefined"),
          deletes |-> FALSE,
          settles |-> 1]

----------------------------------------------------------------------------
(* State *)

NoItem == [value |-> "none", expiration |-> [sec |-> 0, ms |-> 0]]
NoWrite == [has |-> FALSE, value |-> "none", expire |-> NoDate, at |-> 0]
Write(v, e, t) == [has |-> TRUE, value |-> v, expire |-> e, at |-> t]

NoCall ==
    [id |-> 0, op |-> "none", key |-> "none", throwError |-> FALSE,
     promise |-> Pending, settles |-> 0, via |-> "none", found |-> FALSE,
     item |-> NoItem, at |-> 0, afterExpired |-> FALSE, internal |-> FALSE,
     w |-> NoWrite, rem |-> "never"]

\* The entry an earlier session may have left in the store.
OldEntry == Write(OldValue, SomeDate(OldExpire), 0)
EmptyStore == [k \in {} |-> NoItem]
OldStore == [k \in {"k1"} |-> createPersistable(OldEntry.value, OldEntry.expire, 0)]

Has(k) == k \in DOMAIN store

\* IDBObjectStore.add in place of put: an existing record is kept.
Add(s, k, item) == [x \in DOMAIN s \cup {k} |-> IF x \in DOMAIN s THEN s[x] ELSE item]

\* store.put(persistable, cacheKey)
Put(s, k, item) == [x \in DOMAIN s \cup {k} |-> IF x = k THEN item ELSE s[x]]

\* A delete that removes every record.
DeleteAll(s, k) == [x \in {} |-> s[x]]

\* A delete that removes nothing.
DeleteNothing(s, k) == s

\* store.delete(cacheKey)
Delete(s, k) == [x \in DOMAIN s \ {k} |-> s[x]]

\* A clear that removes nothing.
ClearNothing(s) == s

\* store.clear()
Clear(s) == [x \in {} |-> s[x]]

\* A request handed to the object store, with what its handlers close over.
Request(id, op, k, throwError, item, w, internal) ==
    [id |-> id, op |-> op, key |-> k, throwError |-> throwError,
     item |-> item, w |-> w, internal |-> internal,
     afterExpired |-> IF k \in Keys THEN expiredRead[k] ELSE FALSE]

\* No call of DateHelper.dateAdd.
NoHelper ==
    [date |-> DateNow(0), interval |-> "none", units |-> 0, done |-> FALSE,
     ret |-> NoDate]

Init ==
    /\ now = StartNow
    /\ dbVersion \in {DefaultDbVersion, DefaultDbVersion + 1}
    /\ db = 0
    /\ opens = 0
    /\ upgrades = 0
    /\ diskVersion \in {0, DefaultDbVersion}
    /\ store = (IF diskVersion = 0 THEN EmptyStore ELSE OldStore)
    /\ openQueue = << >>
    /\ queue = << >>
    /\ nextId = 1
    /\ calls = 0
    /\ last = NoCall
    /\ written = [k \in Keys |-> IF k \in DOMAIN store THEN OldEntry ELSE NoWrite]
    /\ removed = [k \in Keys |-> IF k \in DOMAIN store THEN "no" ELSE "never"]
    /\ expiredRead = [k \in Keys |-> FALSE]
    /\ openFailure = "none"
    /\ helper = NoHelper

\* The clock advances.
Tick ==
    /\ \E i \in 1..(Len(Instants) - 1) : now = Instants[i] /\ now' = Instants[i + 1]
    /\ UNCHANGED << openFailure, helper, dbVersion, db, opens, upgrades, diskVersion, store,
                    openQueue, queue, nextId, calls, written, removed, expiredRead >>
    /\ last' = NoCall

\* A promise settles: what the caller, and the ghost variables, saw.
Settled(id, op, k, throwError, p, n, how) ==
    [id |-> id, op |-> op, key |-> k, throwError |-> throwError,
     promise |-> p, settles |-> n, via |-> how,
     found |-> FALSE, item |-> NoItem, at |-> now,
     afterExpired |-> FALSE, internal |-> FALSE,
     w |-> IF k \in Keys THEN written[k] ELSE NoWrite,
     rem |-> IF k \in Keys THEN removed[k] ELSE "never"]

\* The promise of request r settles.
SettledRequest(r, p, n, how) ==
    [Settled(r.id, r.op, r.key, r.throwError, p, n, how)
        EXCEPT !.afterExpired = r.afterExpired, !.internal = r.internal]

----------------------------------------------------------------------------
(* init() and the open request *)

\* A second open request that yields no connection.
openResultOnce(n) == IF n = 0 THEN 1 ELSE 0

\* this.db = request.result: the connection just opened, n having been opened
\* before it.
openResult(n) == n + 1

\* An upgrade that creates the object store only when there is none.
onupgradeneededKeeps(s) == s

\* request.onupgradeneeded: deleteObjectStore when the store exists, then
\* createObjectStore.
onupgradeneeded(s) == [k \in {} |-> s[k]]

\* An open error that resolves the promise.
initFailedResolves(p) == resolve(p, "false")

\* request.onerror = reject.bind(null, false)
initFailed(p) == reject(p, "false")

init ==
    /\ calls < MaxCalls
    /\ calls' = calls + 1
    /\ nextId' = nextId + 1
    /\ IF connected(db)
       THEN /\ last' = Settled(nextId, "init", "none", FALSE, Fulfilled("true"),
                               1, "cached")
            /\ UNCHANGED openQueue
       ELSE /\ Len(openQueue) < MaxQueue
            /\ openQueue' = Append(openQueue, nextId)
            /\ last' = NoCall
    /\ openFailure' = IF connected(db) THEN "none"
                      ELSE IF openFailure = "failed" /\ openQueue = << >>
                           THEN "retried"
                           ELSE openFailure
    /\ UNCHANGED << helper, now, dbVersion, db, opens, upgrades, diskVersion, store,
                    queue, written, removed, expiredRead >>

\* request.onupgradeneeded, then request.onsuccess.  indexedDB.open succeeds
\* only for a version that is not below the persisted one, and upgrades when
\* it is above it.
openOnSuccess ==
    /\ openQueue # << >>
    /\ dbVersion >= diskVersion
    /\ IF dbVersion > diskVersion
       THEN /\ upgrades' = upgrades + 1
            /\ diskVersion' = dbVersion
            /\ store' = onupgradeneeded(store)
            /\ written' = [k \in Keys |-> NoWrite]
            /\ removed' = [k \in Keys |-> "upgrade"]
            /\ expiredRead' = [k \in Keys |-> FALSE]
       ELSE UNCHANGED << upgrades, diskVersion, store, written, removed, expiredRead >>
    /\ opens' = opens + 1
    /\ db' = openResult(opens)
    /\ last' = [Settled(Head(openQueue), "init", "none", FALSE,
                        resolve(Pending, "true"), 1, "success")
                   EXCEPT !.found = (dbVersion > diskVersion /\ DOMAIN store # {})]
    /\ openQueue' = Tail(openQueue)
    /\ UNCHANGED << openFailure, helper, now, dbVersion, queue, nextId, calls >>

\* request.onerror = reject.bind(null, false)
openOnError ==
    /\ openQueue # << >>
    /\ last' = Settled(Head(openQueue), "init", "none", FALSE,
                       initFailed(Pending), 1, "error")
    /\ openQueue' = Tail(openQueue)
    /\ openFailure' = IF openFailure = "none" THEN "failed" ELSE openFailure
    /\ UNCHANGED << helper, now, dbVersion, db, opens, upgrades, diskVersion, store,
                    queue, nextId, calls, written, removed, expiredRead >>

----------------------------------------------------------------------------
(* The accessors: each rejects without a connection, and otherwise hands   *)
(* one request to the object store.                                        *)

Accessor(op, k, throwError, item, w) ==
    /\ calls < MaxCalls
    /\ calls' = calls + 1
    /\ nextId' = nextId + 1
    /\ IF noDb(db)
       THEN /\ last' = Settled(nextId, op, k, throwError,
                               reject(Pending, "NoDb"), 1, "nodb")
            /\ UNCHANGED queue
       ELSE /\ Len(queue) < MaxQueue
            /\ queue' = Append(queue, Request(nextId, op, k, throwError, item, w, FALSE))
            /\ last' = NoCall
    /\ openFailure' = IF noDb(db) THEN openFailure ELSE "none"
    /\ UNCHANGED << helper, now, dbVersion, db, opens, upgrades, diskVersion, store,
                    openQueue, written, removed, expiredRead >>

\* get(cacheKey, throwError)
get == \E k \in Keys, throwError \in BOOLEAN :
    Accessor("get", k, throwError, NoItem, NoWrite)

\* put(cacheKey, data, expire): the persistable is made when put is called.
put == \E k \in Keys, data \in Values,
          expire \in {NoDate} \cup {SomeDate(t) : t \in ExpireDates} :
    Accessor("put", k, FALSE, createPersistable(data, expire, now),
             Write(data, expire, now))

\* delete(cacheKey)
delete == \E k \in Keys :
    Accessor("delete", k, FALSE, NoItem, NoWrite)

\* flush()
flush == Accessor("clear", "none", FALSE, NoItem, NoWrite)

----------------------------------------------------------------------------
(* The object store answers its oldest request. *)

\* get: request.onsuccess
getOnSuccess ==
    /\ queue # << >>
    /\ Head(queue).op = "get"
    /\ LET r == Head(queue)
           found == Has(r.key)
           item == IF found THEN store[r.key] ELSE NoItem
           res == getResult(found, item, r.throwError, now)
       IN  /\ last' = [SettledRequest(r, res.promise, res.settles, "success")
                          EXCEPT !.found = found, !.item = item]
           /\ IF res.deletes
              THEN \* this.delete(cacheKey): the connection exists, so a delete
                   \* request follows the requests already pending
                   /\ queue' = Append(Tail(queue),
                          Request(nextId, "delete", r.key, FALSE, NoItem, NoWrite, TRUE))
                   /\ nextId' = nextId + 1
                   /\ expiredRead' = [expiredRead EXCEPT ![r.key] = TRUE]
              ELSE /\ queue' = Tail(queue)
                   /\ UNCHANGED << nextId, expiredRead >>
    /\ UNCHANGED << openFailure, helper, now, dbVersion, db, opens, upgrades, diskVersion, store,
                    openQueue, calls, written, removed >>

\* get: request.onerror
getOnError ==
    /\ queue # << >>
    /\ Head(queue).op = "get"
    /\ last' = SettledRequest(Head(queue), reject(Pending, "GetError"), 1, "error")
    /\ queue' = Tail(queue)
    /\ UNCHANGED << openFailure, helper, now, dbVersion, db, opens, upgrades, diskVersion, store,
                    openQueue, nextId, calls, written, removed, expiredRead >>

\* put: the record is written, then request.onsuccess
putOnSuccess ==
    /\ queue # << >>
    /\ Head(queue).op = "put"
    /\ LET r == Head(queue)
       IN  /\ store' = Put(store, r.key, r.item)
           /\ written' = [written EXCEPT ![r.key] = r.w]
           /\ removed' = [removed EXCEPT ![r.key] = "no"]
           /\ expiredRead' = [expiredRead EXCEPT ![r.key] = FALSE]
           /\ last' = [SettledRequest(r, resolve(Pending, "true"), 1, "success")
                          EXCEPT !.found = Has(r.key),
                                 !.item = IF Has(r.key) THEN store[r.key] ELSE NoItem]
           /\ queue' = [i \in 1..(Len(queue) - 1) |->
                          IF queue[i + 1].key = r.key
                          THEN [queue[i + 1] EXCEPT !.afterExpired = FALSE]
                          ELSE queue[i + 1]]
    /\ UNCHANGED << openFailure, helper, now, dbVersion, db, opens, upgrades, diskVersion,
                    openQueue, nextId, calls >>

\* put: request.onerror
putOnError ==
    /\ queue # << >>
    /\ Head(queue).op = "put"
    /\ last' = SettledRequest(Head(queue), putFailed(Pending), 1, "error")
    /\ queue' = Tail(queue)
    /\ UNCHANGED << openFailure, helper, now, dbVersion, db, opens, upgrades, diskVersion, store,
                    openQueue, nextId, calls, written, removed, expiredRead >>

\* delete: the record is removed, then request.onsuccess
deleteOnSuccess ==
    /\ queue # << >>
    /\ Head(queue).op = "delete"
    /\ LET r == Head(queue)
       IN  /\ store' = Delete(store, r.key)
           /\ written' = IF r.internal THEN written
                         ELSE [written EXCEPT ![r.key] = NoWrite]
           /\ removed' = [removed EXCEPT
                             ![r.key] = IF r.internal THEN "expired" ELSE "delete"]
           /\ last' = SettledRequest(r, resolve(Pending, "undefined"), 1, "success")
    /\ queue' = Tail(queue)
    /\ UNCHANGED << openFailure, helper, now, dbVersion, db, opens, upgrades, diskVersion,
                    openQueue, nextId, calls, expiredRead >>

\* delete: request.onerror
deleteOnError ==
    /\ queue # << >>
    /\ Head(queue).op = "delete"
    /\ last' = SettledRequest(Head(queue), reject(Pending, "DeleteError"), 1, "error")
    /\ queue' = Tail(queue)
    /\ UNCHANGED << openFailure, helper, now, dbVersion, db, opens, upgrades, diskVersion, store,
                    openQueue, nextId, calls, written, removed, expiredRead >>

\* flush: the store is cleared, then request.onsuccess
clearOnSuccess ==
    /\ queue # << >>
    /\ Head(queue).op = "clear"
    /\ store' = Clear(store)
    /\ written' = [k \in Keys |-> NoWrite]
    /\ removed' = [k \in Keys |-> IF Has(k) THEN "flush" ELSE removed[k]]
    /\ last' = SettledRequest(Head(queue), resolve(Pending, "undefined"), 1, "success")
    /\ queue' = Tail(queue)
    /\ UNCHANGED << openFailure, helper, now, dbVersion, db, opens, upgrades, diskVersion,
                    openQueue, nextId, calls, expiredRead >>

\* flush: request.onerror
clearOnError ==
    /\ queue # << >>
    /\ Head(queue).op = "clear"
    /\ last' = SettledRequest(Head(queue), reject(Pending, "ClearError"), 1, "error")
    /\ queue' = Tail(queue)
    /\ UNCHANGED << openFailure, helper, now, dbVersion, db, opens, upgrades, diskVersion, store,
                    openQueue, nextId, calls, written, removed, expiredRead >>

Next ==
    \/ Tick
    \/ init
    \/ openOnSuccess
    \/ openOnError
    \/ get
    \/ put
    \/ delete
    \/ flush
    \/ getOnSuccess
    \/ getOnError
    \/ putOnSuccess
    \/ putOnError
    \/ deleteOnSuccess
    \/ deleteOnError
    \/ clearOnSuccess
    \/ clearOnError

Spec == Init /\ [][Next]_vars

\* The storage engine delivers the success or the error callback of the
\* oldest pending request.
Serve ==
    \/ getOnSuccess \/ getOnError
    \/ putOnSuccess \/ putOnError
    \/ deleteOnSuccess \/ deleteOnError
    \/ clearOnSuccess \/ clearOnError

\* The service with an engine that answers every request it was handed.
LiveSpec == Init /\ [][Next]_vars /\ WF_vars(Serve)

----------------------------------------------------------------------------
(* DateHelper.dateAdd on its own: the arguments are drawn at the start, and *)
(* the one step is the call.                                                *)

\* The date strings passed: the text of Date(), and ISO texts with milliseconds.
Dates == {DateNow(StartNow), toISOString(StartNow), toISOString(Instants[2])}
Units == (0 - MaxUnits)..MaxUnits

InitDateAdd ==
    /\ now = StartNow
    /\ dbVersion = DefaultDbVersion
    /\ db = 0
    /\ opens = 0
    /\ upgrades = 0
    /\ diskVersion = 0
    /\ store = EmptyStore
    /\ openQueue = << >>
    /\ queue = << >>
    /\ nextId = 1
    /\ calls = 0
    /\ last = NoCall
    /\ written = [k \in Keys |-> NoWrite]
    /\ removed = [k \in Keys |-> "never"]
    /\ expiredRead = [k \in Keys |-> FALSE]
    /\ openFailure = "none"
    /\ helper \in [date : Dates, interval : Intervals \cup Unrecognised,
                    units : Units, done : {FALSE}, ret : {NoDate}]

\* DateHelper.dateAdd(date, interval, units) is called and returns.
callDateAdd ==
    /\ ~helper.done
    /\ helper' = [helper EXCEPT
                     !.done = TRUE,
                     !.ret = dateAdd(helper.date, helper.interval, helper.units)]
    /\ UNCHANGED << now, dbVersion, db, opens, upgrades, diskVersion, store,
                    openQueue, queue, nextId, calls, last, written, removed,
                    expiredRead, openFailure >>

NextDateAdd == callDateAdd

SpecDateAdd == InitDateAdd /\ [][NextDateAdd]_vars

----------------------------------------------------------------------------
(* What a get that read the store reports *)

GetRead == last.op = "get" /\ last.via = "success"
Miss == IF last.throwError THEN Rejected("NotFound") ELSE Fulfilled("undefined")

(* C1: round trip.  Once put(k, v, exp) has resolved true, a get(k) whose   *)
(* read completes while the clock is before exp, with no put, delete or    *)
(* flush of the application on k in between, resolves with exactly v.      *)
C1_RoundTrip ==
    (GetRead /\ last.w.has /\ last.w.expire.defined /\ last.at < last.w.expire.time)
        => last.promise = Fulfilled(last.w.value)

(* C2: a get never hands back an expired value.  When the read of get(k)   *)
(* finds an entry whose expiration is at or before the clock, the promise  *)
(* is fulfilled with undefined, whatever throwError is, and not with the   *)
(* stored value.                                                           *)
C2_NoExpiredValue ==
    (GetRead /\ last.found /\ NewDate(last.item.expiration) <= last.at)
        => /\ last.promise = Fulfilled("undefined")
           /\ last.promise.value # last.item.value

\* A get with throwError set reads an entry that expires at this very instant.
C2_Witness ==
    /\ GetRead /\ last.found /\ last.throwError
    /\ NewDate(last.item.expiration) = last.at
    /\ last.settles = 2
    /\ last.promise = Fulfilled("undefined")

(* C3 as stated: after a get(k) that found k expired has returned empty,   *)
(* and with no put on k in between, a subsequent get(k, true) fails with   *)
(* NotFound.                                                               *)
C3_Original ==
    (GetRead /\ last.afterExpired /\ last.throwError)
        => last.promise = Rejected("NotFound")

\* The requests that the store has still to serve are deletes of k issued by get.
DeletePending(k) ==
    /\ queue # << >>
    /\ LET r == queue[Len(queue)]
       IN  r.op = "delete" /\ r.key = k /\ r.internal

(* C3, amended: a get(k) that finds k expired returns empty with a delete  *)
(* of k issued behind the requests already pending.  A get(k) called after *)
(* it, with no put on k in between, fails with NotFound (or returns empty  *)
(* when throwError is false) once a delete or flush has succeeded on k; as *)
(* long as none has, the entry is still stored and the get returns empty   *)
(* again, also with throwError set.                                        *)
C3_ExpiredThenRemoved ==
    /\ (GetRead /\ last.found /\ NewDate(last.item.expiration) <= last.at)
           => DeletePending(last.key)
    /\ (GetRead /\ last.afterExpired)
           => last.promise = IF last.rem \in {"expired", "delete", "flush"}
                             THEN Miss
                             ELSE Fulfilled("undefined")

\* The delete issued by the first get has succeeded, and the second get(k, true)
\* fails with NotFound.
C3_Witness ==
    /\ GetRead /\ last.afterExpired /\ last.throwError
    /\ last.rem = "expired"
    /\ last.promise = Rejected("NotFound")

(* C4: miss handling.  When the read of get(k) completes and k has no      *)
(* entry, get(k, false) resolves with undefined and get(k, true) rejects   *)
(* with NotFound; the step leaves the store as it was and issues no        *)
(* request.                                                                *)
C4_Miss ==
    [][ (last'.op = "get" /\ last'.via = "success" /\ ~Has(last'.key))
            => /\ last'.promise = IF last'.throwError
                                  THEN Rejected("NotFound")
                                  ELSE Fulfilled("undefined")
               /\ store' = store
               /\ queue' = Tail(queue) ]_vars

\* get(k, false) on a key that was never written resolves with undefined.
C4_Witness ==
    /\ GetRead /\ ~last.throwError
    /\ ~last.found /\ last.rem = "never"
    /\ last.promise = Fulfilled("undefined")

(* C5: an accessor called while there is no connection (init not called,   *)
(* its open request pending, or failed) rejects with NotInitialized at     *)
(* once; no request is pending or issued, and the store is unchanged.      *)
C5_NotInitialized ==
    [][ (db = 0 /\ calls' = calls + 1 /\ openQueue' = openQueue)
            => /\ last'.op \in {"get", "put", "delete", "clear"}
               /\ last'.promise = Rejected("NoDb")
               /\ queue = << >> /\ queue' = queue
               /\ store' = store ]_vars

\* put rejects while the open request of init is still pending.
C5_Witness ==
    /\ last.op = "put" /\ last.via = "nodb"
    /\ openQueue # << >> /\ db = 0
    /\ last.promise = Rejected("NoDb")

(* C6: a delete(k) whose request succeeds resolves and leaves no entry for *)
(* k, whether k had one or not; a get(k) that reads after it, with no put  *)
(* on k in between, rejects with NotFound when throwError is set (and      *)
(* resolves with undefined when it is not).                                *)
C6_Delete ==
    /\ (last.op = "delete" /\ last.via = "success")
           => (last.promise = Fulfilled("undefined") /\ ~Has(last.key))
    /\ (GetRead /\ last.rem = "delete") => last.promise = Miss

\* get(k, true) fails with NotFound after a delete of k.
C6_Witness ==
    /\ GetRead /\ last.throwError /\ last.rem = "delete"
    /\ ~last.afterExpired
    /\ last.promise = Rejected("NotFound")

(* C7: a flush whose request succeeds leaves the store empty; a get of a   *)
(* key that the flush removed, with no put on it since, rejects with       *)
(* NotFound when throwError is set and resolves with undefined when not.   *)
C7_Flush ==
    /\ (last.op = "clear" /\ last.via = "success")
           => (last.promise = Fulfilled("undefined") /\ DOMAIN store = {})
    /\ (GetRead /\ last.rem = "flush") => last.promise = Miss

\* get(k, true) fails with NotFound for a key that the flush removed.
C7_Witness ==
    /\ GetRead /\ last.throwError /\ last.rem = "flush"
    /\ last.promise = Rejected("NotFound")

(* C8: put overwrites.  After a successful put(k, v2, exp2) on a key that  *)
(* held an entry, the store holds for k the value v2 and the expiration    *)
(* exp2.                                                                   *)
C8_Overwrite ==
    (last.op = "put" /\ last.via = "success" /\ last.found)
        => LET new == written[last.key]
           IN  /\ last.promise = Fulfilled("true")
               /\ Has(last.key)
               /\ store[last.key].value = new.value
               /\ new.expire.defined
                      => NewDate(store[last.key].expiration) = new.expire.time

\* v2 with a future expiration replaces v1, whose expiration had passed.
C8_Witness ==
    /\ last.op = "put" /\ last.via = "success"
    /\ last.found /\ last.item.value = "v1" /\ NewDate(last.item.expiration) < now
    /\ written[last.key].value = "v2"
    /\ written[last.key].expire.defined /\ written[last.key].expire.time > now
    /\ store[last.key].value = "v2"

(* C9: an init() called once a connection is cached returns true at once:  *)
(* it opens no connection, runs no upgrade, and leaves the store and the   *)
(* cached handle as they were.                                             *)
C9_InitIdempotent ==
    [][ (db # 0 /\ calls' = calls + 1 /\ queue' = queue)
            => /\ last'.op = "init"
               /\ last'.promise = Fulfilled("true")
               /\ openQueue' = openQueue
               /\ opens' = opens /\ upgrades' = upgrades
               /\ diskVersion' = diskVersion
               /\ store' = store /\ db' = db ]_vars

\* A second init() on the one connection that was opened returns true.
C9_Witness ==
    /\ last.op = "init" /\ last.via = "cached"
    /\ opens = 1 /\ db = 1
    /\ last.promise = Fulfilled("true")

(* C10: an entry put with no expiration expires one hour after the clock   *)
(* value at the put: a get that reads it returns the value strictly before *)
(* that, and undefined at or after it.                                     *)
C10_DefaultExpiration ==
    (GetRead /\ last.found /\ last.w.has /\ ~last.w.expire.defined)
        => last.promise = IF last.at < last.w.at + HourMs
                          THEN Fulfilled(last.w.value)
                          ELSE Fulfilled("undefined")

(* C11: a write error on the request of put makes put resolve with false,  *)
(* not reject, and leaves the store as it was: the entry under the key, or *)
(* its absence, is unchanged.  put rejects only when there is no           *)
(* connection.                                                             *)
C11_PutError ==
    [][ /\ (last'.op = "put" /\ last'.via = "error")
            => /\ last'.promise = Fulfilled("false")
               /\ last'.settles = 1
               /\ store' = store
        /\ (last'.op = "put" /\ last'.promise.state = "rejected")
            => (last'.via = "nodb" /\ db = 0) ]_vars

\* A put on the key that holds the old entry fails: it returns false and the
\* old entry is still stored.
C11_Witness ==
    /\ last.op = "put" /\ last.via = "error"
    /\ last.promise = Fulfilled("false")
    /\ last.w = OldEntry
    /\ Has(last.key) /\ store[last.key].value = OldValue

(* C12: an error of the storage engine on the request of get, delete or    *)
(* flush rejects the promise of that call, once; the request is dropped    *)
(* and no other is issued in its place, the requests behind it stay        *)
(* queued, and the connection and the store are as before.                 *)
C12_StorageError ==
    [][ (last'.op \in {"get", "delete", "clear"} /\ last'.via = "error")
            => /\ last'.promise.state = "rejected"
               /\ last'.promise.value \in {"GetError", "DeleteError", "ClearError"}
               /\ last'.settles = 1
               /\ queue' = Tail(queue)
               /\ nextId' = nextId
               /\ db # 0 /\ db' = db
               /\ store' = store ]_vars

\* The read of a get fails while a later call is waiting to be served.
C12_Witness ==
    /\ last.op = "get" /\ last.via = "error"
    /\ last.promise = Rejected("GetError")
    /\ db # 0 /\ queue # << >>

(* C13: DateHelper.dateAdd returns undefined for an interval that is no    *)
(* member of DateInterval; for hour, minute and second it returns the time *)
(* of the date passed moved by units x 3600, units x 60 and units x 1      *)
(* seconds, for negative and zero units too; the date passed is left as it *)
(* was.                                                                    *)
C13_DateAdd ==
    [][ helper'.done
            => LET base == helper.date.sec * 1000 + helper.date.ms
                   u == helper.units
                   r == helper'.ret
               IN  /\ helper'.date = helper.date
                   /\ helper.interval \in Unrecognised => ~r.defined
                   /\ helper.interval = "hour"
                          => (r.defined /\ r.time - base = u * 3600 * 1000)
                   /\ helper.interval = "minute"
                          => (r.defined /\ r.time - base = u * 60 * 1000)
                   /\ helper.interval = "second"
                          => (r.defined /\ r.time - base = u * 1000) ]_vars

\* Two hours are taken from a date with milliseconds: the result lies before
\* 1970.
C13_Witness ==
    /\ helper.done
    /\ helper.interval = "hour" /\ helper.units = 0 - 2
    /\ helper.date.ms # 0
    /\ helper.ret.defined
    /\ helper.ret.time = NewDate(helper.date) - 2 * HourMs
    /\ helper.ret.time < 0

(* C14: init has no guard for an open request in flight.  Every init()     *)
(* called while no connection is cached issues an open request, also when  *)
(* one is pending already, so two connections can be opened for one        *)
(* instance; each success callback stores its connection, and the cached   *)
(* handle is the one of the callback that ran last.                        *)
C14_InitRace ==
    [][ /\ (db = 0 /\ calls' = calls + 1 /\ last'.via # "nodb")
            => openQueue' = Append(openQueue, nextId)
        /\ (opens' # opens)
            => (opens' = opens + 1 /\ db' = opens') ]_vars

\* Two init() calls were made before either resolved: the second connection
\* has been opened and replaces the first as the cached handle.
C14_Witness ==
    /\ last.op = "init" /\ last.via = "success"
    /\ last.promise = Fulfilled("true")
    /\ opens = 2 /\ db = 2

(* C15: Ready is absorbing.  Once a connection is cached, no step, whether *)
(* a call or a callback of the storage engine, success or error, sets the  *)
(* handle back to null; the handle changes only when an open request       *)
(* succeeds.                                                               *)
C15_ReadyAbsorbing ==
    [][ db # 0 => (db' # 0 /\ (db' # db => opens' = opens + 1)) ]_vars

\* The connection is still cached after the engine failed a flush.
C15_Witness ==
    /\ last.op = "clear" /\ last.via = "error"
    /\ db # 0

C17_Upgrade ==
    [][ /\ (opens' = opens + 1)
            => /\ db' # 0
               /\ diskVersion' = dbVersion
               /\ IF dbVersion > diskVersion
                  THEN upgrades' = upgrades + 1 /\ DOMAIN store' = {}
                  ELSE upgrades' = upgrades /\ store' = store
        /\ (last'.op = "get" /\ last'.via = "success" /\ last'.rem = "upgrade")
            => last'.promise = IF last'.throwError
                               THEN Rejected("NotFound")
                               ELSE Fulfilled("undefined")
        /\ (last'.op = "get" /\ last'.via = "success" /\ upgrades = 0
               /\ last'.w = OldEntry /\ last'.at < OldExpire)
            => last'.promise = Fulfilled(OldValue) ]_vars

\* The store held an entry under version 1; init() with version 2 has
\* succeeded, before that entry would have expired, and the store is empty.
C17_Witness ==
    /\ last.op = "init" /\ last.via = "success" /\ last.found
    /\ last.promise = Fulfilled("true")
    /\ now < OldExpire
    /\ dbVersion = DefaultDbVersion + 1 /\ upgrades = 1
    /\ db # 0 /\ DOMAIN store = {}

\* The entry of k, or its absence, is not the same after the step.
Changed(k) ==
    \/ (k \in DOMAIN store) # (k \in DOMAIN store')
    \/ (k \in DOMAIN store /\ k \in DOMAIN store' /\ store[k] # store'[k])

(* C18: key isolation.  The entry of a key changes only in a step in which *)
(* a put or a delete of that very key succeeds (the delete issued on an    *)
(* expired read included), a flush succeeds, or an upgrade runs; the step  *)
(* in which the read of a get completes changes no entry, and issues a     *)
(* request only when it found the entry expired.                           *)
C18_KeyIsolation ==
    [][ /\ \A k \in Keys :
               Changed(k)
                   => \/ /\ last'.op \in {"put", "delete"}
                         /\ last'.via = "success"
                         /\ last'.key = k
                      \/ last'.op = "clear" /\ last'.via = "success"
                      \/ upgrades' = upgrades + 1
        /\ (last'.op = "get" /\ last'.via = "success")
               => /\ store' = store
                  /\ (~last'.found \/ NewDate(last'.item.expiration) > last'.at)
                         => queue' = Tail(queue) ]_vars

\* The delete issued on reading k1 expired has removed k1, and the entry of
\* k2 is still stored.
C18_Witness ==
    /\ last.op = "delete" /\ last.internal /\ last.via = "success"
    /\ last.key = "k1" /\ ~Has("k1")
    /\ Has("k2") /\ store["k2"].value = "v2"

(* C19: the delete that get(k) issues on reading an expired entry never    *)
(* removes an entry that has not expired: when it takes effect, the entry  *)
(* stored for k, if there is one, is an expired one.                      *)
C19_ExpiredDeleteOnly ==
    [][ (last'.op = "delete" /\ last'.internal /\ last'.via = "success"
            /\ Has(last'.key))
            => NewDate(store[last'.key].expiration) <= now ]_vars

(* C20: a get(k) that reads an expired entry resolves with undefined in    *)
(* the step that issues the delete, which is then still pending; when that *)
(* delete fails, the promise that is rejected is the delete's own, the     *)
(* entry stays, and a get(k) called later, with no put on k in between,    *)
(* finds it and resolves with undefined again, not with the stale value.   *)
C20_DeleteIgnored ==
    [][ /\ (last'.op = "get" /\ last'.via = "success" /\ last'.found
               /\ NewDate(last'.item.expiration) <= last'.at)
            => /\ last'.promise = Fulfilled("undefined")
               /\ queue' # << >>
               /\ LET d == queue'[Len(queue')]
                  IN  d.op = "delete" /\ d.internal /\ d.key = last'.key
                        /\ d.id # last'.id
        /\ (last'.op = "delete" /\ last'.internal /\ last'.via = "error")
            => /\ store' = store
               /\ last'.id = Head(queue).id
               /\ Head(queue).op = "delete"
        /\ (last'.op = "get" /\ last'.via = "success" /\ last'.afterExpired
               /\ last'.rem = "no")
            => /\ last'.found
               /\ last'.promise = Fulfilled("undefined")
               /\ last'.promise.value # last'.item.value ]_vars

\* The delete issued by the first get has failed: the second get(k, true)
\* finds the stale entry and resolves with undefined.
C20_Witness ==
    /\ GetRead /\ last.afterExpired /\ last.throwError
    /\ last.found /\ last.rem = "no"
    /\ last.promise = Fulfilled("undefined")
    /\ Len(queue) = 1 /\ queue[1].id = nextId - 1

\* The request of call id is with the storage engine.
Issued(id) == \E i \in 1..Len(queue) : queue[i].id = id

\* The promise of call id has just been settled.
SettledNow(id) ==
    /\ last.id = id
    /\ last.op \in {"get", "put", "delete", "clear"}
    /\ last.promise.state \in {"fulfilled", "rejected"}

(* C21: every get, put, delete and flush called with a connection settles, *)
(* provided the engine answers its request: the call issues one request,   *)
(* the callback of that request settles the promise, fulfilled or          *)
(* rejected, in the step that takes the request from the engine, and the   *)
(* requests pending are of distinct calls, so no promise is settled a      *)
(* second time and none stays pending.                                     *)
C21_Settles ==
    /\ [][ /\ (db # 0 /\ calls' = calls + 1 /\ openQueue' = openQueue
                  /\ last'.op # "init")
                => (queue' = Append(queue, queue'[Len(queue')])
                      /\ queue'[Len(queue')].id = nextId /\ nextId' > nextId)
           /\ (queue # << >> /\ Len(queue') <= Len(queue) /\ queue' # queue)
                => /\ last'.id = Head(queue).id
                   /\ last'.op = Head(queue).op
                   /\ last'.promise.state \in {"fulfilled", "rejected"}
                   /\ \A i \in 1..Len(queue') : queue'[i].id # last'.id
           /\ \A i, j \in 1..Len(queue') :
                   (i < j) => (queue'[i].id < queue'[j].id /\ queue'[j].id < nextId') ]_vars
    /\ \A id \in 1..(2 * MaxCalls) : Issued(id) ~> SettledNow(id)

\* The last call that the bound allows, a flush, has settled, and no request
\* is pending.
C21_Witness ==
    /\ last.op = "clear" /\ last.promise = Fulfilled("undefined")
    /\ calls = MaxCalls /\ last.id >= MaxCalls
    /\ queue = << >>

====
